---- MODULE Spec2Model ----
(***************************************************************************)
(* Model of the xion-farm CosmWasm contract                                *)
(* (src/xion-farm-contract/src/lib.rs): a singleton STATE record holding   *)
(* total_products, a PRODUCTS map from product id to Product, and the      *)
(* entry points instantiate, execute (RegisterProduct, Buy) and query      *)
(* (GetProducts, GetProduct).  Every entry point runs to completion on the *)
(* store before the next one starts, so each is one action.                *)
(***************************************************************************)
EXTENDS Integers, Sequences, FiniteSets, TLC

\* ---------------------------------------------------------------- bounds
MaxItems == 2     \* registrations allowed per value of the counter
MaxQty   == 3     \* the non-zero product_quantity submitted to RegisterProduct
MaxInits == 2     \* number of instantiate calls explored
MaxListed == 11   \* registrations allowed in the listing specification

\* ---------------------------------------------------------------- inputs
\* The RegisterProduct messages submitted, with their senders.  They differ
\* in every field; one has the empty name and quantity 0.
Registrations ==
    {[sender |-> "creator", product_name |-> "Tomato",
      product_price |-> [denom |-> "earth", amount |-> 50],
      product_quantity |-> MaxQty],
     [sender |-> "farmer", product_name |-> "",
      product_price |-> [denom |-> "uxion", amount |-> 0],
      product_quantity |-> 0]}

\* The quantities submitted to Buy: nothing, one unit, all but one unit of a
\* registration (more than is left once it has been bought), and more than
\* any stock.
BuyQuantities == {0, 1, MaxQty - 1, MaxQty + 1}

\* ------------------------------------------------------- strings as bytes
\* Identifiers are sequences of one-character strings so that formatting
\* and the byte order of storage keys are computed, not assumed.
Digits == <<"0", "1", "2", "3", "4", "5", "6", "7", "8", "9">>

\* The characters that occur in keys, in ascending byte (ASCII) order.
Alphabet == <<"-", "0", "1", "2", "3", "4", "5", "6", "7", "8", "9",
              "c", "d", "e", "i", "m", "o", "p", "r", "t", "u">>

Code(c) == CHOOSE i \in 1..Len(Alphabet) : Alphabet[i] = c

\* u64::to_string / the "{}" of format!: decimal, no leading zeros.
RECURSIVE Decimal(_)
Decimal(n) == IF n < 10 THEN <<Digits[n + 1]>>
              ELSE Decimal(n \div 10) \o <<Digits[(n % 10) + 1]>>

\* format!("product-{}", n)
ProductId(n) == <<"p", "r", "o", "d", "u", "c", "t", "-">> \o Decimal(n)

\* Variant: shorter keys sort first, so that keys are in numeric order.
BytesLess_shortlex(a, b) ==
    \/ Len(a) < Len(b)
    \/ /\ Len(a) = Len(b)
       /\ \E i \in 1..Len(a) :
            /\ \A j \in 1..(i - 1) : a[j] = b[j]
            /\ Code(a[i]) < Code(b[i])

\* Byte-wise lexicographic order of two keys (the order of the store's
\* iterator): a proper prefix sorts first.
BytesLess(a, b) ==
    \/ /\ Len(a) < Len(b)
       /\ \A i \in 1..Len(a) : a[i] = b[i]
    \/ \E i \in 1..Len(a) :
          /\ i <= Len(b)
          /\ \A j \in 1..(i - 1) : a[j] = b[j]
          /\ Code(a[i]) < Code(b[i])

\* ----------------------------------------------------------------- state
VARIABLES
    state,       \* STATE: <<>> when never saved, else <<[total_products |-> n]>>
    products,    \* PRODUCTS: function from stored key to Product
    lastOp,      \* the message handled by the last entry-point call
    lastResult,  \* the StdResult that call returned
    initCount,   \* history: number of instantiate calls so far
    regCount,    \* history: successful RegisterProduct calls since the last instantiate
    minted,      \* history: every product id a RegisterProduct returned
    registered,  \* history: product id -> quantity given at its registration
    purchased,   \* history: product id -> sum of quantities bought since then
    calls,       \* handler calls executed step by step: name -> locals
    snapshot     \* history: the store when the first such call started

vars == <<state, products, lastOp, lastResult,
          initCount, regCount, minted, registered, purchased,
          calls, snapshot>>

\* ------------------------------------------------------------- StdResult
NotFound(kind)   == [ok |-> FALSE, err |-> [variant |-> "NotFound", msg |-> kind]]
generic_err(msg) == [ok |-> FALSE, err |-> [variant |-> "GenericErr", msg |-> msg]]

\* ----------------------------------------------------------------- store
\* Variant: an absent record is read as the default State (may_load with
\* unwrap_or_default) instead of failing.
STATE_load_or_default(st) ==
    IF st = <<>> THEN [ok |-> TRUE, data |-> [total_products |-> 0]]
    ELSE [ok |-> TRUE, data |-> st[1]]

\* Item::load on STATE
STATE_load(st) == IF st = <<>> THEN NotFound("State")
                  ELSE [ok |-> TRUE, data |-> st[1]]

\* Map::load on PRODUCTS
PRODUCTS_load(prods, key) ==
    IF key \in DOMAIN prods THEN [ok |-> TRUE, data |-> prods[key]]
    ELSE NotFound("Product")

\* Variant: the save replaces the whole map by the one record.
PRODUCTS_save_only_key(prods, key, p) == [k \in {key} |-> p]

\* Map::save on PRODUCTS: overwrite, creating the record if absent
PRODUCTS_save(prods, key, p) ==
    [k \in (DOMAIN prods) \cup {key} |-> IF k = key THEN p ELSE prods[k]]

\* Map::range(None, None, Order::Ascending): records in ascending key order
RECURSIVE PRODUCTS_range(_, _)
PRODUCTS_range(prods, keys) ==
    IF keys = {} THEN <<>>
    ELSE LET k == CHOOSE x \in keys : \A y \in keys \ {x} : BytesLess(x, y)
         IN  <<prods[k]>> \o PRODUCTS_range(prods, keys \ {k})

\* -------------------------------------------------------------- handlers
\* Each handler maps the store to the store it leaves and its StdResult.

\* Variant: an existing State record is kept (re-invocation is a no-op).
instantiate_keep_existing(st) ==
    [state  |-> IF st = <<>> THEN <<[total_products |-> 0]>> ELSE st,
     result |-> [ok |-> TRUE, action |-> "instantiate"]]

instantiate(st) ==
    [state  |-> <<[total_products |-> 0]>>,
     result |-> [ok |-> TRUE, action |-> "instantiate"]]

\* Variant: the owner field is left empty instead of taking info.sender.
new_product_no_owner(product_id, sender, name, price, quantity) ==
    [id       |-> product_id,
     name     |-> name,
     quantity |-> quantity,
     price    |-> price,
     owner    |-> "",
     status   |-> "Available"]

\* The Product literal built by execute_register_product.
new_product(product_id, sender, name, price, quantity) ==
    [id       |-> product_id,
     name     |-> name,
     quantity |-> quantity,
     price    |-> price,
     owner    |-> sender,
     status   |-> "Available"]

\* Variant: the id is formatted from total_products, not total_products + 1.
execute_register_product_off_by_one(st, prods, sender, name, price, quantity) ==
    LET loaded == STATE_load(st) IN
    IF ~loaded.ok
    THEN [state |-> st, products |-> prods, result |-> loaded]
    ELSE LET product_id == ProductId(loaded.data.total_products)
             p == new_product(product_id, sender, name, price, quantity)
         IN  [state    |-> <<[total_products |-> loaded.data.total_products + 1]>>,
              products |-> PRODUCTS_save(prods, product_id, p),
              result   |-> [ok |-> TRUE, action |-> "register_product",
                            product_id |-> product_id]]

execute_register_product(st, prods, sender, name, price, quantity) ==
    LET loaded == STATE_load(st) IN
    IF ~loaded.ok
    THEN [state |-> st, products |-> prods, result |-> loaded]
    ELSE LET product_id == ProductId(loaded.data.total_products + 1)
             p == new_product(product_id, sender, name, price, quantity)
         IN  [state    |-> <<[total_products |-> loaded.data.total_products + 1]>>,
              products |-> PRODUCTS_save(prods, product_id, p),
              result   |-> [ok |-> TRUE, action |-> "register_product",
                            product_id |-> product_id]]

\* Variant: the stock check runs before the status check.
buy_validate_stock_first(product, quantity) ==
    IF product.quantity < quantity THEN generic_err("Not enough stock")
    ELSE IF product.status = "Sold" THEN generic_err("Product already sold")
    ELSE [ok |-> TRUE]

\* Variant: the stock check is missing.
buy_validate_no_stock_check(product, quantity) ==
    IF product.status = "Sold" THEN generic_err("Product already sold")
    ELSE [ok |-> TRUE]

\* Variant: the stock check rejects a purchase of exactly what is left.
buy_validate_strict(product, quantity) ==
    IF product.status = "Sold" THEN generic_err("Product already sold")
    ELSE IF product.quantity <= quantity THEN generic_err("Not enough stock")
    ELSE [ok |-> TRUE]

\* The two early returns of execute_buy, in source order.
buy_validate(product, quantity) ==
    IF product.status = "Sold" THEN generic_err("Product already sold")
    ELSE IF product.quantity < quantity THEN generic_err("Not enough stock")
    ELSE [ok |-> TRUE]

\* Variant: the status is never set to Sold.
buy_apply_never_sold(product, quantity) ==
    [product EXCEPT !.quantity = @ - quantity]

\* Variant: the owner is cleared along with the stock.
buy_apply_clears_owner(product, quantity) ==
    LET left == product.quantity - quantity IN
    [product EXCEPT !.quantity = left,
                    !.owner    = "",
                    !.status   = IF left = 0 THEN "Sold" ELSE @]

\* The mutation of the loaded product: subtract, then mark Sold at zero.
\* The subtraction is on u64; buy_validate has already excluded
\* product.quantity < quantity, so it cannot wrap.
buy_apply(product, quantity) ==
    LET left == product.quantity - quantity IN
    [product EXCEPT !.quantity = left,
                    !.status   = IF left = 0 THEN "Sold" ELSE @]

\* Variant: the product is subtracted from (down to zero) and saved before
\* the stock check returns its error.
execute_buy_save_before_check(prods, product_id, quantity) ==
    LET loaded == PRODUCTS_load(prods, product_id) IN
    IF ~loaded.ok
    THEN [products |-> prods, result |-> loaded]
    ELSE LET checked == buy_validate(loaded.data, quantity) IN
         IF ~checked.ok
         THEN [products |-> IF checked = generic_err("Not enough stock")
                            THEN PRODUCTS_save(prods, product_id,
                                   [loaded.data EXCEPT !.quantity = 0,
                                                       !.status = "Sold"])
                            ELSE prods,
               result   |-> checked]
         ELSE [products |-> PRODUCTS_save(prods, product_id,
                                          buy_apply(loaded.data, quantity)),
               result   |-> [ok |-> TRUE, action |-> "buy",
                             product_id |-> product_id,
                             quantity   |-> Decimal(quantity)]]

\* Variant: the response reports what is left and the status instead of the
\* quantity bought.
execute_buy_reports_remaining(prods, product_id, quantity) ==
    LET loaded == PRODUCTS_load(prods, product_id) IN
    IF ~loaded.ok
    THEN [products |-> prods, result |-> loaded]
    ELSE LET checked == buy_validate(loaded.data, quantity) IN
         IF ~checked.ok
         THEN [products |-> prods, result |-> checked]
         ELSE LET product == buy_apply(loaded.data, quantity) IN
              [products |-> PRODUCTS_save(prods, product_id, product),
               result   |-> [ok |-> TRUE, action |-> "buy",
                             product_id |-> product_id,
                             quantity   |-> Decimal(product.quantity),
                             status     |-> product.status]]

execute_buy(prods, product_id, quantity) ==
    LET loaded == PRODUCTS_load(prods, product_id) IN
    IF ~loaded.ok
    THEN [products |-> prods, result |-> loaded]
    ELSE LET checked == buy_validate(loaded.data, quantity) IN
         IF ~checked.ok
         THEN [products |-> prods, result |-> checked]
         ELSE [products |-> PRODUCTS_save(prods, product_id,
                                          buy_apply(loaded.data, quantity)),
               result   |-> [ok |-> TRUE, action |-> "buy",
                             product_id |-> product_id,
                             quantity   |-> Decimal(quantity)]]

\* Variant: the product is loaded again at the time of the save, so the
\* checks see the stored record and not the call's own copy.
buy_commit_reloaded(prods, product, product_id, quantity) ==
    execute_buy(prods, product_id, quantity)

\* execute_buy after its load: the checks and the subtraction work on the
\* call's local copy of the product, which is then saved over the stored one.
buy_commit(prods, product, product_id, quantity) ==
    LET checked == buy_validate(product, quantity) IN
    IF ~checked.ok
    THEN [products |-> prods, result |-> checked]
    ELSE [products |-> PRODUCTS_save(prods, product_id,
                                     buy_apply(product, quantity)),
          result   |-> [ok |-> TRUE, action |-> "buy",
                        product_id |-> product_id,
                        quantity   |-> Decimal(quantity)]]

\* Variant: the counter is incremented in the store (Item::update) instead
\* of being overwritten from the call's local copy.
register_next_state_in_store(st, local) ==
    <<[total_products |-> st[1].total_products + 1]>>

\* The end of execute_register_product: the call's local State, read at
\* its start, is incremented and saved over the stored one.
register_next_state(st, local) ==
    <<[total_products |-> local.total_products + 1]>>

\* Variant: products whose status is Sold are left out of the listing.
RECURSIVE SelectAvailable(_)
SelectAvailable(list) ==
    IF list = <<>> THEN <<>>
    ELSE (IF Head(list).status = "Sold" THEN <<>> ELSE <<Head(list)>>)
           \o SelectAvailable(Tail(list))

query_products_available_only(prods) ==
    [ok |-> TRUE,
     data |-> [products |-> SelectAvailable(PRODUCTS_range(prods, DOMAIN prods))]]

query_products(prods) ==
    [ok |-> TRUE, data |-> [products |-> PRODUCTS_range(prods, DOMAIN prods)]]

query_product(prods, id) == PRODUCTS_load(prods, id)

\* ---------------------------------------------------------------- actions
\* Identifiers a caller may submit: every id that can be minted and one
\* that never is.
SubmittedIds == {ProductId(k) : k \in 1..(MaxItems + 1)}

Init ==
    /\ state = <<>>
    /\ products = <<>>
    /\ lastOp = [op |-> "none"]
    /\ lastResult = [ok |-> TRUE, action |-> "none"]
    /\ initCount = 0
    /\ regCount = 0
    /\ minted = {}
    /\ registered = <<>>
    /\ purchased = <<>>
    /\ calls = <<>>
    /\ snapshot = [state |-> <<>>, products |-> <<>>]

Instantiate ==
    /\ initCount < MaxInits
    /\ LET r == instantiate(state) IN
         /\ state' = r.state
         /\ lastResult' = r.result
    /\ lastOp' = [op |-> "instantiate"]
    /\ initCount' = initCount + 1
    /\ regCount' = 0
    /\ UNCHANGED <<products, minted, registered, purchased, calls, snapshot>>

RegisterProductUpTo(limit) ==
    \E reg \in Registrations :
      /\ state # <<>> => state[1].total_products < limit
      /\ LET r == execute_register_product(state, products, reg.sender,
                      reg.product_name, reg.product_price,
                      reg.product_quantity)
         IN  /\ state' = r.state
             /\ products' = r.products
             /\ lastResult' = r.result
             /\ IF r.result.ok
                THEN /\ regCount' = regCount + 1
                     /\ minted' = minted \cup {r.result.product_id}
                     /\ registered' =
                          [k \in (DOMAIN registered) \cup {r.result.product_id} |->
                             IF k = r.result.product_id
                             THEN reg.product_quantity
                             ELSE registered[k]]
                     /\ purchased' =
                          [k \in (DOMAIN purchased) \cup {r.result.product_id} |->
                             IF k = r.result.product_id THEN 0
                             ELSE purchased[k]]
                ELSE UNCHANGED <<regCount, minted, registered, purchased>>
      /\ lastOp' = [op |-> "register_product", sender |-> reg.sender,
                    product_name |-> reg.product_name,
                    product_price |-> reg.product_price,
                    product_quantity |-> reg.product_quantity]
      /\ UNCHANGED <<initCount, calls, snapshot>>

RegisterProduct == RegisterProductUpTo(MaxItems)

Buy ==
    \E product_id \in SubmittedIds, quantity \in BuyQuantities :
      /\ LET r == execute_buy(products, product_id, quantity)
         IN  /\ products' = r.products
             /\ lastResult' = r.result
             /\ IF r.result.ok
                THEN purchased' = [purchased EXCEPT ![product_id] = @ + quantity]
                ELSE UNCHANGED purchased
      /\ lastOp' = [op |-> "buy", product_id |-> product_id,
                    quantity |-> quantity]
      /\ UNCHANGED <<state, initCount, regCount, minted, registered,
                     calls, snapshot>>

GetProducts ==
    /\ lastResult' = query_products(products)
    /\ lastOp' = [op |-> "get_products"]
    /\ UNCHANGED <<state, products, initCount, regCount, minted,
                   registered, purchased, calls, snapshot>>

GetProduct ==
    \E id \in SubmittedIds :
      /\ lastResult' = query_product(products, id)
      /\ lastOp' = [op |-> "get_product", id |-> id]
      /\ UNCHANGED <<state, products, initCount, regCount, minted,
                     registered, purchased, calls, snapshot>>

Next == Instantiate \/ RegisterProduct \/ Buy \/ GetProducts \/ GetProduct

Spec == Init /\ [][Next]_vars

\* ------------------------------------------------- listing specification
\* One instantiate, then up to MaxListed registrations and listings, so that
\* identifiers with two digits are minted.
InstantiateOnce == initCount = 0 /\ Instantiate

RegisterMany == RegisterProductUpTo(MaxListed)

NextList == InstantiateOnce \/ RegisterMany \/ GetProducts

SpecList == Init /\ [][NextList]_vars

\* -------------------------------------------- step-by-step specification
\* The handlers as sequences of their store accesses, for two calls whose
\* accesses may interleave.  The store is first set up by whole calls
\* (one instantiate, registrations); once a stepwise call has started only
\* stepwise calls run.  The chain runs each call to completion, so this
\* specification describes executions outside the contract's host.
Calls == {"c1", "c2"}

Put(f, k, v) == [x \in (DOMAIN f) \cup {k} |-> IF x = k THEN v ELSE f[x]]

\* The calls that have read the store and not yet returned.
InFlight == {d \in DOMAIN calls : calls[d].pc # "done"}

Pending == [ok |-> FALSE, err |-> [variant |-> "none", msg |-> "pending"]]

Started == IF calls = <<>> THEN [state |-> state, products |-> products]
           ELSE snapshot

SetupInstantiate == calls = <<>> /\ InstantiateOnce

SetupRegister == calls = <<>> /\ RegisterProduct

\* execute_register_product, first access: STATE.load, then the local
\* construction of the id and the product.
CallRegisterLoad(c) ==
    /\ c \notin DOMAIN calls
    /\ \E reg \in Registrations :
         LET loaded == STATE_load(state) IN
         calls' = Put(calls, c,
                    [op |-> "register_product",
                     pc |-> IF loaded.ok THEN "save_product" ELSE "done",
                     sender |-> reg.sender,
                     product_name |-> reg.product_name,
                     product_price |-> reg.product_price,
                     product_quantity |-> reg.product_quantity,
                     loaded |-> loaded,
                     overlapped |-> InFlight,
                     overwrote |-> FALSE,
                     result |-> IF loaded.ok THEN Pending ELSE loaded])
    /\ snapshot' = Started
    /\ UNCHANGED <<state, products, lastOp, lastResult, initCount, regCount,
                   minted, registered, purchased>>

\* execute_register_product, second access: PRODUCTS.save.
CallRegisterSaveProduct(c) ==
    /\ c \in DOMAIN calls
    /\ calls[c].op = "register_product"
    /\ calls[c].pc = "save_product"
    /\ LET k  == calls[c]
           id == ProductId(k.loaded.data.total_products + 1)
           p  == new_product(id, k.sender, k.product_name, k.product_price,
                             k.product_quantity)
       IN  /\ products' = PRODUCTS_save(products, id, p)
           /\ calls' = [calls EXCEPT ![c].pc = "save_state",
                                     ![c].overwrote = (id \in DOMAIN products)]
           /\ registered' = Put(registered, id, k.product_quantity)
           /\ purchased' = Put(purchased, id, 0)
    /\ UNCHANGED <<state, lastOp, lastResult, initCount, regCount, minted,
                   snapshot>>

\* execute_register_product, third access: STATE.save, then the response.
CallRegisterSaveState(c) ==
    /\ c \in DOMAIN calls
    /\ calls[c].op = "register_product"
    /\ calls[c].pc = "save_state"
    /\ LET k  == calls[c]
           id == ProductId(k.loaded.data.total_products + 1)
       IN  /\ state' = register_next_state(state, k.loaded.data)
           /\ calls' = [calls EXCEPT
                          ![c].pc = "done",
                          ![c].result = [ok |-> TRUE,
                                         action |-> "register_product",
                                         product_id |-> id]]
           /\ minted' = minted \cup {id}
    /\ regCount' = regCount + 1
    /\ UNCHANGED <<products, lastOp, lastResult, initCount, registered,
                   purchased, snapshot>>

\* execute_buy, first access: PRODUCTS.load.
CallBuyLoad(c) ==
    /\ c \notin DOMAIN calls
    /\ \E product_id \in SubmittedIds, quantity \in BuyQuantities :
         LET loaded == PRODUCTS_load(products, product_id) IN
         calls' = Put(calls, c,
                    [op |-> "buy",
                     pc |-> IF loaded.ok THEN "save" ELSE "done",
                     product_id |-> product_id,
                     quantity |-> quantity,
                     loaded |-> loaded,
                     overlapped |-> InFlight,
                     result |-> IF loaded.ok THEN Pending ELSE loaded])
    /\ snapshot' = Started
    /\ UNCHANGED <<state, products, lastOp, lastResult, initCount, regCount,
                   minted, registered, purchased>>

\* execute_buy, the checks on the loaded copy and the second access:
\* PRODUCTS.save, then the response.
CallBuySave(c) ==
    /\ c \in DOMAIN calls
    /\ calls[c].op = "buy"
    /\ calls[c].pc = "save"
    /\ LET k == calls[c]
           r == buy_commit(products, k.loaded.data, k.product_id, k.quantity)
       IN  /\ products' = r.products
           /\ calls' = [calls EXCEPT ![c].pc = "done", ![c].result = r.result]
           /\ IF r.result.ok
              THEN purchased' = [purchased EXCEPT ![k.product_id] = @ + k.quantity]
              ELSE UNCHANGED purchased
    /\ UNCHANGED <<state, lastOp, lastResult, initCount, regCount, minted,
                   registered, snapshot>>

NextSteps ==
    \/ SetupInstantiate
    \/ SetupRegister
    \/ \E c \in Calls : CallRegisterLoad(c)
    \/ \E c \in Calls : CallRegisterSaveProduct(c)
    \/ \E c \in Calls : CallRegisterSaveState(c)
    \/ \E c \in Calls : CallBuyLoad(c)
    \/ \E c \in Calls : CallBuySave(c)

SpecSteps == Init /\ [][NextSteps]_vars

\* ============================================================ properties
\* In [][A]_vars a step that changes vars and leaves lastOp' = m is the
\* handling of message m; the unprimed variables are the store before it.

StoreUnchanged == state' = state /\ products' = products

\* The identifier spelled with the prefix "item-".
ItemId(n) == <<"i", "t", "e", "m", "-">> \o Decimal(n)

\* C1: in every reachable state every stored product has quantity 0 if and
\* only if its status is Sold.
C1_SoldIffZero ==
    \A id \in DOMAIN products :
        (products[id].quantity = 0) <=> (products[id].status = "Sold")

\* C2: after exactly one instantiate the k-th successful RegisterProduct
\* returns sequence number k, overwrites no stored product, and
\* total_products equals the number of stored products, whatever Buy calls
\* and queries come in between.
C2_SequentialIds ==
    /\ [](initCount = 1 =>
            /\ state[1].total_products = Cardinality(DOMAIN products)
            /\ state[1].total_products = regCount)
    /\ [][(initCount' = 1 /\ lastOp'.op = "register_product" /\ lastResult'.ok) =>
            /\ lastResult'.product_id = ProductId(regCount + 1)
            /\ regCount' = regCount + 1
            /\ lastResult'.product_id \notin DOMAIN products
            /\ \A id \in DOMAIN products :
                 id \in DOMAIN products' /\ products'[id] = products[id]]_vars

C2_Witness ==
    /\ initCount = 1
    /\ regCount >= 2
    /\ lastOp.op = "register_product"
    /\ lastResult.ok
    /\ \E id \in DOMAIN purchased : purchased[id] > 0

\* The postcondition of RegisterProduct on an initialized store whose
\* counter is n, for the identifier expected(n + 1).
RegisterPost(expected(_)) ==
    (lastOp'.op = "register_product" /\ state # <<>>) =>
        LET n == state[1].total_products IN
        /\ lastResult'.ok
        /\ lastResult'.product_id = expected(n + 1)
        /\ state'[1].total_products = n + 1
        /\ LET got == query_product(products', expected(n + 1)) IN
             /\ got.ok
             /\ got.data.name = lastOp'.product_name
             /\ got.data.price = lastOp'.product_price
             /\ got.data.quantity = lastOp'.product_quantity
             /\ got.data.owner = lastOp'.sender
             /\ (lastOp'.product_quantity > 0 => got.data.status = "Available")

\* C3 (as stated): RegisterProduct on an initialized store with counter n
\* succeeds for every input and returns "item-" followed by n + 1; GetProduct
\* on it returns the supplied name, price and quantity, the caller as owner,
\* status Available when quantity > 0; the counter becomes n + 1.
C3_ReturnsItemId == [][RegisterPost(ItemId)]_vars

\* C3 (amended): as above, with the identifier "product-" followed by n + 1.
C3_ReturnsProductId == [][RegisterPost(ProductId)]_vars

C3_Witness ==
    /\ lastOp.op = "register_product"
    /\ lastResult.ok
    /\ lastOp.product_name = ""
    /\ state[1].total_products >= 2
    /\ \E id \in DOMAIN products :
         products[id].name = "Tomato" /\ products[id].quantity > 0

\* C4: a Buy of q on a stored Available product with q not exceeding its
\* quantity succeeds and leaves quantity = old quantity - q, with status
\* Sold exactly when the new quantity is 0 and Available otherwise.
C4_BuyEffect ==
    [][(/\ lastOp'.op = "buy"
        /\ lastOp'.product_id \in DOMAIN products
        /\ products[lastOp'.product_id].status = "Available"
        /\ lastOp'.quantity <= products[lastOp'.product_id].quantity) =>
          LET old == products[lastOp'.product_id]
              new == products'[lastOp'.product_id]
          IN  /\ lastResult'.ok
              /\ new.quantity = old.quantity - lastOp'.quantity
              /\ (new.status = "Sold") <=> (new.quantity = 0)
              /\ (new.status = "Available") <=> (new.quantity # 0)]_vars

C4_Witness ==
    /\ lastOp.op = "buy"
    /\ lastResult.ok
    /\ lastOp.quantity > 0
    /\ products[lastOp.product_id].status = "Sold"
    /\ \E id \in DOMAIN products :
         products[id].status = "Available" /\ purchased[id] > 0

\* C5: Buy validates in a fixed order: an unknown id gives NotFound;
\* otherwise a Sold product gives "Product already sold" for every quantity,
\* 0 included; otherwise a quantity above the stock gives "Not enough
\* stock"; the three errors are pairwise different.
C5_ValidationOrder ==
    [][lastOp'.op = "buy" =>
         LET id == lastOp'.product_id
             q  == lastOp'.quantity
         IN  /\ id \notin DOMAIN products =>
                  lastResult' = NotFound("Product")
             /\ (id \in DOMAIN products /\ products[id].status = "Sold") =>
                  lastResult' = generic_err("Product already sold")
             /\ (/\ id \in DOMAIN products
                 /\ products[id].status # "Sold"
                 /\ q > products[id].quantity) =>
                  lastResult' = generic_err("Not enough stock")
             /\ NotFound("Product") # generic_err("Product already sold")
             /\ NotFound("Product") # generic_err("Not enough stock")
             /\ generic_err("Product already sold") #
                  generic_err("Not enough stock")]_vars

C5_Witness ==
    /\ lastOp.op = "buy"
    /\ lastOp.quantity = 0
    /\ lastResult = generic_err("Product already sold")

\* C6: a Buy that fails leaves every product record and the counter as
\* they were.
C6_FailedBuyNoChange ==
    [][(lastOp'.op = "buy" /\ ~lastResult'.ok) => StoreUnchanged]_vars

C6_Witness ==
    /\ lastOp.op = "buy"
    /\ lastResult = generic_err("Not enough stock")
    /\ products[lastOp.product_id].quantity > 0

\* C7: once a stored product is Sold, no later call leaves the product
\* stored under that identifier Available or with another quantity.
C7_SoldAbsorbing ==
    [][\A id \in DOMAIN products :
         products[id].status = "Sold" =>
           /\ id \in DOMAIN products'
           /\ products'[id].status = "Sold"
           /\ products'[id].quantity = products[id].quantity]_vars

\* C8: after exactly one instantiate no product's quantity is negative and
\* the quantity registered equals the quantity left plus the sum of the
\* quantities of the successful Buy calls on it.
C8_NeverOversold ==
    initCount = 1 =>
      \A id \in DOMAIN products :
        /\ products[id].quantity >= 0
        /\ registered[id] = products[id].quantity + purchased[id]

C8_Witness ==
    /\ initCount = 1
    /\ \E id \in DOMAIN products :
         purchased[id] > 0 /\ products[id].quantity > 0
    /\ \E id \in DOMAIN products :
         purchased[id] > 0 /\ products[id].quantity = 0

\* The behaviour before the first instantiate: RegisterProduct fails with
\* NotFound for the State record, Buy fails with the error buyError, and
\* neither writes.
BeforeInstantiate(buyError) ==
    state = <<>> =>
      /\ lastOp'.op = "register_product" =>
           lastResult' = NotFound("State") /\ StoreUnchanged
      /\ lastOp'.op = "buy" =>
           lastResult' = buyError /\ StoreUnchanged

\* C9 (as stated): before instantiate both RegisterProduct and Buy fail
\* with the error of the absent State record, and neither writes.
C9_BothUninitialized == [][BeforeInstantiate(NotFound("State"))]_vars

\* C9 (amended): before instantiate RegisterProduct fails with the error of
\* the absent State record; Buy never loads State and fails with NotFound
\* for the product; neither writes.
C9_BuyFailsOnProduct == [][BeforeInstantiate(NotFound("Product"))]_vars

C9_Witness ==
    /\ state = <<>>
    /\ products = <<>>
    /\ lastOp.op = "buy"
    /\ lastResult = NotFound("Product")

\* C10: GetProducts returns every product id ever minted exactly once, Sold
\* ones included, in ascending order of the identifier, each entry being
\* the record now stored; it is empty when nothing was registered.  The
\* order is fixed by the identifiers alone, so it does not depend on the
\* Buy calls made between the registrations.
C10_ListsAllAscending ==
    lastOp.op = "get_products" =>
      LET list == lastResult.data.products IN
      /\ lastResult.ok
      /\ \A id \in minted :
           Cardinality({i \in 1..Len(list) : list[i].id = id}) = 1
      /\ \A i \in 1..Len(list) :
           list[i].id \in minted /\ list[i] = products[list[i].id]
      /\ \A i, j \in 1..Len(list) :
           i < j => BytesLess(list[i].id, list[j].id)
      /\ minted = {} => list = <<>>

C10_Witness ==
    /\ lastOp.op = "get_products"
    /\ Len(lastResult.data.products) >= 2
    /\ \E i \in 1..Len(lastResult.data.products) :
         lastResult.data.products[i].status = "Sold"
    /\ \E i \in 1..Len(lastResult.data.products) :
         lastResult.data.products[i].status = "Available"

\* C11 (as stated): the result of a successful Buy carries the quantity left
\* and the status after the purchase, equal to the stored values.
C11_ResultHasRemaining ==
    (lastOp.op = "buy" /\ lastResult.ok) =>
      /\ "status" \in DOMAIN lastResult
      /\ lastResult.status = products[lastOp.product_id].status
      /\ lastResult.quantity = Decimal(products[lastOp.product_id].quantity)

\* C11 (amended): the result of a successful Buy carries the action tag, the
\* product id and the quantity bought, and nothing else.
C11_ResultHasPurchased ==
    (lastOp.op = "buy" /\ lastResult.ok) =>
      lastResult = [ok |-> TRUE, action |-> "buy",
                    product_id |-> lastOp.product_id,
                    quantity |-> Decimal(lastOp.quantity)]

C11_Witness ==
    /\ lastOp.op = "buy"
    /\ lastResult.ok
    /\ lastOp.quantity > 0
    /\ products[lastOp.product_id].quantity > 0
    /\ products[lastOp.product_id].quantity # lastOp.quantity

\* The outcome of repeating the Buy that has just succeeded.
RepeatedBuy == execute_buy(products, lastOp.product_id, lastOp.quantity)

\* C12 (as stated): repeating a Buy that succeeded either fails with
\* "Product already sold" or leaves strictly less than the first call left.
C12_RepeatSoldOrSmaller ==
    (lastOp.op = "buy" /\ lastResult.ok) =>
      \/ RepeatedBuy.result = generic_err("Product already sold")
      \/ /\ RepeatedBuy.result.ok
         /\ RepeatedBuy.products[lastOp.product_id].quantity
              < products[lastOp.product_id].quantity

\* C12 (amended): repeating a Buy of q that succeeded and left r fails with
\* "Product already sold" when r = 0, fails with "Not enough stock" when
\* 0 < r < q, and otherwise succeeds and leaves r - q, which is less than r
\* exactly when q > 0.
C12_RepeatOutcome ==
    (lastOp.op = "buy" /\ lastResult.ok) =>
      LET q == lastOp.quantity
          r == products[lastOp.product_id].quantity
      IN  /\ r = 0 =>
               RepeatedBuy.result = generic_err("Product already sold")
          /\ (0 < r /\ r < q) =>
               /\ RepeatedBuy.result = generic_err("Not enough stock")
               /\ RepeatedBuy.products = products
          /\ (0 < r /\ q <= r) =>
               /\ RepeatedBuy.result.ok
               /\ RepeatedBuy.products[lastOp.product_id].quantity = r - q
               /\ (r - q < r) <=> (q > 0)

C12_Witness ==
    /\ lastOp.op = "buy"
    /\ lastResult.ok
    /\ 0 < products[lastOp.product_id].quantity
    /\ products[lastOp.product_id].quantity < lastOp.quantity

\* C13: a Buy succeeds only with a quantity that is at least 1 and at most
\* the stock; a Buy of 0 never succeeds and never changes a status.
C13_SucceedsOnlyPositive ==
    [][lastOp'.op = "buy" =>
         /\ lastResult'.ok =>
              /\ lastOp'.product_id \in DOMAIN products
              /\ lastOp'.quantity > 0
              /\ lastOp'.quantity <= products[lastOp'.product_id].quantity
         /\ lastOp'.quantity = 0 =>
              /\ ~lastResult'.ok
              /\ \A id \in DOMAIN products :
                   products'[id].status = products[id].status]_vars

\* C14: a successful Buy changes only the quantity and status of the product
\* it names: its id, name, price and owner, every other record, the set of
\* stored ids and the counter stay as they were.
C14_BuyFrame ==
    [][(lastOp'.op = "buy" /\ lastResult'.ok) =>
         /\ state' = state
         /\ DOMAIN products' = DOMAIN products
         /\ \A id \in DOMAIN products :
              IF id = lastOp'.product_id
              THEN /\ products'[id].id = products[id].id
                   /\ products'[id].name = products[id].name
                   /\ products'[id].price = products[id].price
                   /\ products'[id].owner = products[id].owner
              ELSE products'[id] = products[id]]_vars

C14_Witness ==
    /\ lastOp.op = "buy"
    /\ lastResult.ok
    /\ lastOp.quantity > 0
    /\ Cardinality(DOMAIN products) >= 2
    /\ products[lastOp.product_id].owner = "creator"

\* C15: instantiate on a store that already holds products succeeds, sets
\* total_products to 0 and leaves the products; the next RegisterProduct
\* returns sequence number 1 again and replaces the record stored under it.
C15_ReinstantiateResets ==
    [][/\ (lastOp'.op = "instantiate" /\ products # <<>>) =>
            /\ lastResult'.ok
            /\ state' = <<[total_products |-> 0]>>
            /\ products' = products
       /\ (/\ lastOp'.op = "register_product"
           /\ state = <<[total_products |-> 0]>>
           /\ products # <<>>) =>
            /\ ProductId(1) \in DOMAIN products
            /\ lastResult'.ok
            /\ lastResult'.product_id = ProductId(1)
            /\ products'[ProductId(1)] =
                 [id       |-> ProductId(1),
                  name     |-> lastOp'.product_name,
                  quantity |-> lastOp'.product_quantity,
                  price    |-> lastOp'.product_price,
                  owner    |-> lastOp'.sender,
                  status   |-> "Available"]]_vars

C15_Witness ==
    /\ initCount = 2
    /\ lastOp.op = "register_product"
    /\ lastResult.ok
    /\ lastResult.product_id = ProductId(1)
    /\ Cardinality(minted) >= 2
    /\ products[ProductId(1)].name = ""
    /\ purchased[ProductId(1)] = 0

\* The position of the product with sequence number n in a listing.
Position(list, n) == CHOOSE i \in 1..Len(list) : list[i].id = ProductId(n)

\* C19: GetProducts orders by the bytes of the identifier string, not by the
\* sequence number: with ten or more products, number 10 is listed before
\* number 2, so the listing is not in registration order.
C19_LexicographicOrder ==
    (lastOp.op = "get_products" /\ Len(lastResult.data.products) >= 10) =>
      LET list == lastResult.data.products IN
      /\ Position(list, 10) < Position(list, 2)
      /\ Position(list, 1) < Position(list, 10)
      /\ \A i, j \in 1..Len(list) :
           i < j => BytesLess(list[i].id, list[j].id)
      /\ \E i \in 1..Len(list) : list[i].id # ProductId(i)

C19_Witness ==
    /\ lastOp.op = "get_products"
    /\ Len(lastResult.data.products) >= 11
    /\ lastResult.data.products[2].id = ProductId(10)
    /\ lastResult.data.products[3].id = ProductId(11)
    /\ lastResult.data.products[4].id = ProductId(2)

\* Two stepwise calls overlap when one made its first access while the other
\* had made its first access and not yet returned.
Overlap(c1, c2) == c1 \in calls[c2].overlapped \/ c2 \in calls[c1].overlapped

\* Two Buy calls on the same product that overlapped, have both returned,
\* and each asked for no more than the Available stock it loaded.
RacingBuys(c1, c2) ==
    /\ c1 # c2
    /\ calls[c1].op = "buy" /\ calls[c2].op = "buy"
    /\ calls[c1].pc = "done" /\ calls[c2].pc = "done"
    /\ calls[c1].product_id = calls[c2].product_id
    /\ Overlap(c1, c2)
    /\ calls[c1].loaded.ok /\ calls[c2].loaded.ok
    /\ calls[c1].loaded.data.status = "Available"
    /\ calls[c2].loaded.data.status = "Available"
    /\ calls[c1].quantity <= calls[c1].loaded.data.quantity
    /\ calls[c2].quantity <= calls[c2].loaded.data.quantity

\* C16: when two Buy calls on one product each load it before the other
\* saves, both are checked against the same loaded quantity and both
\* succeed; the stored quantity reflects only the later save while both
\* quantities count as bought, which can exceed what was registered.
C16_BothPassOnStaleQuantity ==
    \A c1, c2 \in DOMAIN calls :
      RacingBuys(c1, c2) =>
        LET id == calls[c1].product_id
            p  == calls[c1].loaded.data
        IN  /\ calls[c2].loaded.data = p
            /\ calls[c1].result.ok /\ calls[c2].result.ok
            /\ products[id].quantity \in {p.quantity - calls[c1].quantity,
                                         p.quantity - calls[c2].quantity}
            /\ purchased[id] = (registered[id] - p.quantity)
                                 + calls[c1].quantity + calls[c2].quantity

C16_Witness ==
    \E c1, c2 \in DOMAIN calls :
      /\ RacingBuys(c1, c2)
      /\ purchased[calls[c1].product_id] > registered[calls[c1].product_id]
      /\ products[calls[c1].product_id].quantity > 0

\* Two RegisterProduct calls that both loaded State and have both returned.
TwoRegisters(c1, c2) ==
    /\ c1 # c2
    /\ calls[c1].op = "register_product" /\ calls[c2].op = "register_product"
    /\ calls[c1].pc = "done" /\ calls[c2].pc = "done"
    /\ calls[c1].loaded.ok /\ calls[c2].loaded.ok

\* C17: two RegisterProduct calls that both load the counter before either
\* saves it return the same id, the later product save replaces the earlier,
\* and the counter advances by 1; calls that do not overlap return different
\* ids and replace nothing.
C17_SameIdWhenInterleaved ==
    \A c1, c2 \in DOMAIN calls :
      TwoRegisters(c1, c2) =>
        LET n1 == calls[c1].loaded.data.total_products
            n2 == calls[c2].loaded.data.total_products
            later == IF calls[c1].overwrote THEN c1 ELSE c2
        IN  IF Overlap(c1, c2)
            THEN /\ n1 = n2
                 /\ calls[c1].result.product_id = ProductId(n1 + 1)
                 /\ calls[c2].result.product_id = ProductId(n1 + 1)
                 /\ state = <<[total_products |-> n1 + 1]>>
                 /\ calls[c1].overwrote # calls[c2].overwrote
                 /\ products[ProductId(n1 + 1)] =
                      new_product(ProductId(n1 + 1), calls[later].sender,
                                  calls[later].product_name,
                                  calls[later].product_price,
                                  calls[later].product_quantity)
            ELSE /\ calls[c1].result.product_id # calls[c2].result.product_id
                 /\ ~calls[c1].overwrote /\ ~calls[c2].overwrote
                 /\ state = <<[total_products |-> snapshot.state[1].total_products + 2]>>

C17_Witness ==
    \E c1, c2 \in DOMAIN calls :
      /\ TwoRegisters(c1, c2)
      /\ Overlap(c1, c2)
      /\ calls[c1].product_name # calls[c2].product_name
      /\ calls[c1].result.product_id = calls[c2].result.product_id
      /\ snapshot.products # <<>>

\* A Buy call b on a product stored before the calls started and a
\* RegisterProduct call g on an initialized store, both returned.
BuyAndRegister(b, g) ==
    /\ calls[b].op = "buy" /\ calls[g].op = "register_product"
    /\ calls[b].pc = "done" /\ calls[g].pc = "done"
    /\ calls[b].product_id \in DOMAIN snapshot.products
    /\ snapshot.state # <<>>

\* C18: a Buy on a stored product A and a RegisterProduct minting another
\* product B commute: whatever the interleaving of their accesses, the two
\* results and the final store are those of running the two calls one after
\* the other, in either order.
C18_BuyRegisterCommute ==
    \A b, g \in DOMAIN calls :
      BuyAndRegister(b, g) =>
        LET buyFirst == execute_buy(snapshot.products, calls[b].product_id,
                                    calls[b].quantity)
            regAfter == execute_register_product(snapshot.state,
                          buyFirst.products, calls[g].sender,
                          calls[g].product_name, calls[g].product_price,
                          calls[g].product_quantity)
            regFirst == execute_register_product(snapshot.state,
                          snapshot.products, calls[g].sender,
                          calls[g].product_name, calls[g].product_price,
                          calls[g].product_quantity)
            buyAfter == execute_buy(regFirst.products, calls[b].product_id,
                                    calls[b].quantity)
        IN  /\ calls[g].result.product_id # calls[b].product_id
            /\ products = regAfter.products /\ products = buyAfter.products
            /\ state = regAfter.state /\ state = regFirst.state
            /\ calls[b].result = buyFirst.result
            /\ calls[b].result = buyAfter.result
            /\ calls[g].result = regAfter.result
            /\ calls[g].result = regFirst.result

C18_Witness ==
    \E b, g \in DOMAIN calls :
      /\ BuyAndRegister(b, g)
      /\ Overlap(b, g)
      /\ calls[b].result.ok
      /\ calls[b].quantity > 0
      /\ calls[g].overwrote = FALSE
      /\ g \in calls[b].overlapped

====
